---- MODULE Spec2Model ----
(***************************************************************************)
(* Order / stock / payment consistency engine of the welto point of sale.  *)
(* The persisted tables Product, Order, OrderItem, Payment and             *)
(* MouvementStock are the state; every request handler is one action that  *)
(* runs to completion, with the model save() overrides and the signal      *)
(* receivers it triggers inlined in the order Django dispatches them.      *)
(* Money is counted in whole currency units.                               *)
(***************************************************************************)
EXTENDS Integers, Sequences, FiniteSets, TLC

\* ---------------------------------------------------------------- bounds
MaxOrders == 1
InitQty == 2
MaxQty == 4
MaxItemQty == 3
MaxLedger == 3
MaxPayments == 2
MaxAmount == 2
MaxDiscount == 1
MaxPrice == 2
MaxPromo == 1
MaxPriceEdits == 1
MaxStockQty == 2
MaxCost == 2
MaxDepenses == 2
MaxServed == 3

Products == {"p1", "p2"}
OrderIds == 1..MaxOrders
NoRef == 0
Null == -1
Workers == {"w1", "w2"}

Max(a, b) == IF a >= b THEN a ELSE b

VARIABLES
    product,        \* Product table: qty, value, discount_value per product
    order,          \* Order table: row per id (exists = FALSE when no row)
    nextOrderId,    \* next auto-increment primary key of Order
    item,           \* OrderItem table: item[o][p], id = 0 when no row
    nextItemId,     \* next auto-increment primary key of OrderItem
    payment,        \* Payment table: set of rows
    nextPaymentId,  \* next auto-increment primary key of Payment
    ledger,         \* MouvementStock table in insertion order
    priceEdits,     \* number of product price edits served so far
    typeDepense,    \* TypeDepense table: the names of its rows
    depense,        \* Depense table: set of rows
    nextDepenseId,  \* next auto-increment primary key of Depense
    reqs,           \* per worker, the request it has loaded rows for
    orderTitles,    \* Order table, columns pk, date and title
    bulkOrders,     \* the rows of that table that no request names
    nextTitlePk,    \* next auto-increment primary key of that table
    generated,      \* the Order.save served last on it and what it generated
    last            \* the request served last and its result

vars == <<product, order, nextOrderId, item, nextItemId, payment,
          nextPaymentId, ledger, priceEdits, typeDepense, depense, nextDepenseId, reqs,
          orderTitles, bulkOrders, nextTitlePk, generated, last>>

\* the columns of Order that the numbering of orders reads and writes
Numbering == <<orderTitles, bulkOrders, nextTitlePk, generated>>

\* ------------------------------------------------------------ rows
NoOrder == [exists |-> FALSE, value |-> 0, discount |-> 0, final_value |-> 0,
            is_paid |-> FALSE]

NoItem == [id |-> 0, qty |-> 0, price |-> 0, discount_price |-> 0,
           final_price |-> 0, total_price |-> 0]

MouvementStock(p, type, quantite, avant, apres, commande) ==
    [produit |-> p, type_mouvement |-> type, quantite |-> quantite,
     stock_avant |-> avant, stock_apres |-> apres,
     prix_achat_unitaire |-> Null, cout_total |-> Null,
     reference_commande |-> commande, reference_depense |-> NoRef]

\* the request served last: the operation, the order it addressed, its
\* result and error, and for a payment just added its key and amount with
\* the balance, cached flag and paid status found before it
Request(op, action, o, ok) ==
    [op |-> op, action |-> action, order |-> o, ok |-> ok, error |-> "",
     pid |-> 0, amount |-> 0, rem0 |-> 0, paid0 |-> FALSE, fully0 |-> FALSE,
     undo |-> FALSE]

\* a worker's request between the load of its rows and the rest of the
\* handler: the operation, its arguments and the rows as loaded; served
\* counts the requests the worker has taken
NoRequest == [op |-> "", action |-> "", order |-> NoRef, p |-> "",
              n |-> 0, cost |-> 0, product |-> <<>>, item |-> <<>>,
              instance |-> <<>>, served |-> 0]

\* ------------------------------------------------------------ Order
RECURSIVE SumTotalPrice(_, _)
SumTotalPrice(S, its) ==
    IF S = {} THEN 0
    ELSE LET p == CHOOSE x \in S : TRUE
         IN its[p].total_price + SumTotalPrice(S \ {p}, its)

order_items(its) == {p \in Products : its[p].id > 0}

RECURSIVE SumAmount(_)
SumAmount(S) ==
    IF S = {} THEN 0
    ELSE LET x == CHOOSE y \in S : TRUE
         IN x.amount + SumAmount(S \ {x})

payments(o, pays) == {x \in pays : x.order = o}

total_payments(o, pays) == SumAmount(payments(o, pays))

remaining_amount(ord, o, pays) ==
    Max(0, ord.final_value - total_payments(o, pays))

\* is_fully_paid without the test for an order with nothing billed
is_fully_paid_unbilled(ord, o, pays) == remaining_amount(ord, o, pays) <= 0

is_fully_paid(ord, o, pays) ==
    IF ord.final_value <= 0 THEN FALSE
    ELSE remaining_amount(ord, o, pays) <= 0

\* Order.save that leaves the discount out of final_value
Order_save_without_discount(mem, its) ==
    LET has == order_items(its) # {}
        val == IF has THEN SumTotalPrice(order_items(its), its) ELSE 0
        obj == [mem EXCEPT !.value = val, !.final_value = val]
    IN [db |-> IF has THEN obj ELSE mem, mem |-> obj]

\* Order.save that also clears the paid flag when it recomputes the totals
Order_save_clearing_paid(mem, its) ==
    LET has == order_items(its) # {}
        val == IF has THEN SumTotalPrice(order_items(its), its) ELSE 0
        obj == [mem EXCEPT !.value = val, !.final_value = val - mem.discount,
                           !.is_paid = FALSE]
    IN [db |-> IF has THEN obj ELSE mem, mem |-> obj]

\* Order.save on the in-memory object mem whose items are its: the row is
\* written, value and final_value are recomputed on the object, and the row
\* is written again only when the order has items.  db is the row left in
\* the table, mem the object afterwards.
Order_save(mem, its) ==
    LET has == order_items(its) # {}
        val == IF has THEN SumTotalPrice(order_items(its), its) ELSE 0
        obj == [mem EXCEPT !.value = val, !.final_value = val - mem.discount]
    IN [db |-> IF has THEN obj ELSE mem, mem |-> obj]

\* ------------------------------------------------------------ OrderItem
OrderItem_save(it) ==
    LET fp == IF it.discount_price > 0 THEN it.discount_price ELSE it.price
    IN [it EXCEPT !.final_price = fp, !.total_price = it.qty * fp]

\* ------------------------------------------------------------ Init
InitShop ==
    /\ product = [p \in Products |->
                     [qty |-> InitQty, value |-> MaxPrice,
                      discount_value |-> IF p = "p2" THEN MaxPromo ELSE 0,
                      prix_achat |-> 0]]
    /\ order = [o \in OrderIds |-> NoOrder]
    /\ nextOrderId = 1
    /\ item = [o \in OrderIds |-> [p \in Products |-> NoItem]]
    /\ nextItemId = 1
    /\ payment = {}
    /\ nextPaymentId = 1
    /\ ledger = <<>>
    /\ priceEdits = 0
    /\ typeDepense = {}
    /\ depense = {}
    /\ nextDepenseId = 1
    /\ reqs = [w \in Workers |-> NoRequest]
    /\ last = Request("init", "", NoRef, TRUE)

\* no titled order yet
NoTitle == [kind |-> "", date |-> 0, time |-> 0, n |-> 0]

\* no order besides the ones the requests name
NoBulk == [n |-> 0, date |-> 0]

NoSave == [op |-> "init", pk |-> 0, title |-> NoTitle, before |-> NoTitle, probes |-> 0, fallback |-> FALSE, regenerated |-> FALSE, taken |-> FALSE, saves |-> 0]

Init ==
    /\ InitShop
    /\ orderTitles = {}
    /\ bulkOrders = NoBulk
    /\ nextTitlePk = 1
    /\ generated = NoSave

\* CreateOrderView.form_valid: a new order, is_paid forced to False
CreateOrderView ==
    /\ nextOrderId <= MaxOrders
    /\ order' = [order EXCEPT ![nextOrderId] =
                    Order_save([NoOrder EXCEPT !.exists = TRUE],
                               item[nextOrderId]).db]
    /\ nextOrderId' = nextOrderId + 1
    /\ last' = Request("create_order", "", nextOrderId, TRUE)
    /\ UNCHANGED <<product, item, nextItemId, payment, nextPaymentId, ledger,
                   priceEdits, Numbering, typeDepense, depense, nextDepenseId, reqs>>

\* OrderUpdateView with OrderEditForm: the discount is set on the loaded
\* order and the form saves it
OrderUpdateView(o, d) ==
    /\ order[o].exists
    /\ order' = [order EXCEPT ![o] =
                    Order_save([order[o] EXCEPT !.discount = d], item[o]).db]
    /\ last' = Request("edit_order", "", o, TRUE)
    /\ UNCHANGED <<product, nextOrderId, item, nextItemId, payment,
                   nextPaymentId, ledger, priceEdits, Numbering, typeDepense, depense, nextDepenseId,
                   reqs>>

\* edit_product with SimpleProductForm: list price and promo price change
edit_product(p, v, d) ==
    /\ priceEdits < MaxPriceEdits
    /\ priceEdits' = priceEdits + 1
    /\ product' = [product EXCEPT ![p] =
                      [product[p] EXCEPT !.value = v, !.discount_value = d]]
    /\ last' = Request("edit_product", "", NoRef, TRUE)
    /\ UNCHANGED <<Numbering, order, nextOrderId, item, nextItemId, payment,
                   nextPaymentId, ledger, typeDepense, depense, nextDepenseId, reqs>>

\* ------------------------------------------------------------ order items
\* a stock test that lets a product with no unit left through
out_of_stock_negative_only(prod) == prod.qty < 0

\* the stock test of ajax_add_product and of ajax_modify_order_item(add)
out_of_stock(prod) == prod.qty <= 0

\* a sale row that does not name the order
tracer_vente_produit_unreferenced(p, prod, it, o) ==
    MouvementStock(p, "SORTIE_VENTE", 0 - it.qty, prod.qty + it.qty,
                   prod.qty, NoRef)

\* post_save receiver of OrderItem, created = True: it runs inside
\* get_or_create, before the view has decremented the product
tracer_vente_produit(p, prod, it, o) ==
    MouvementStock(p, "SORTIE_VENTE", 0 - it.qty, prod.qty + it.qty,
                   prod.qty, o)

\* the fields ajax_add_product sets on a row get_or_create has just created
created_item(it, prod) ==
    [it EXCEPT !.qty = 1, !.price = prod.value,
               !.discount_price = prod.discount_value]

\* an increment that copies the product's current prices again
incremented_item_resnapshot(it, prod) ==
    [it EXCEPT !.qty = it.qty + 1, !.price = prod.value,
               !.discount_price = prod.discount_value]

\* the fields ajax_add_product sets on a row that already existed
incremented_item(it, prod) == [it EXCEPT !.qty = it.qty + 1]

\* a write that applies the object's change of qty to the row as it is now
Product_save_delta(row, obj, qty) == [row EXCEPT !.qty = row.qty + (qty - obj.qty)]

\* product.qty = qty; product.save() on the object obj loaded earlier: save
\* writes every field of the object over the row
Product_save(row, obj, qty) == [obj EXCEPT !.qty = qty]

\* ajax_add_product once prod and instance are loaded.  interrupted: the
\* request dies after order_item.save() and before product.save(); each
\* statement commits on its own, get_or_create being one transaction with
\* the receivers it triggers.
ajax_add_product_on(o, p, prod, instance, interrupted) ==
    /\ order[o].exists
    /\ IF out_of_stock(prod)
       THEN /\ ~ interrupted
            /\ last' = [Request("add_item", "", o, FALSE)
                          EXCEPT !.error = "rupture de stock"]
            /\ UNCHANGED <<product, order, nextOrderId, item, nextItemId,
                           payment, nextPaymentId, ledger, priceEdits, Numbering,
                           typeDepense, depense, nextDepenseId>>
       ELSE /\ IF item[o][p].id = 0
               THEN \* get_or_create inserts the row with the field defaults
                    LET it0 == OrderItem_save([NoItem EXCEPT !.id = nextItemId,
                                                             !.qty = 1])
                        s0 == Order_save(instance, [item[o] EXCEPT ![p] = it0])
                        it1 == OrderItem_save(created_item(it0, prod))
                        s1 == Order_save(s0.mem, [item[o] EXCEPT ![p] = it1])
                    IN  /\ Len(ledger) < MaxLedger
                        /\ ledger' = Append(ledger,
                                       tracer_vente_produit(p, prod, it0, o))
                        /\ item' = [item EXCEPT ![o][p] = it1]
                        /\ nextItemId' = nextItemId + 1
                        /\ order' = [order EXCEPT ![o] = s1.db]
               ELSE LET it1 == OrderItem_save(
                                  incremented_item(item[o][p], prod))
                        s1 == Order_save(instance, [item[o] EXCEPT ![p] = it1])
                    IN  /\ item[o][p].qty < MaxItemQty
                        /\ item' = [item EXCEPT ![o][p] = it1]
                        /\ order' = [order EXCEPT ![o] = s1.db]
                        /\ UNCHANGED <<nextItemId, ledger>>
            /\ IF interrupted
               THEN /\ UNCHANGED product
                    /\ last' = [Request("add_item", "", o, FALSE)
                                  EXCEPT !.error = "interrompu"]
               ELSE /\ product' = [product EXCEPT ![p] =
                                     Product_save(product[p], prod, prod.qty - 1)]
                    /\ last' = Request("add_item", "", o, TRUE)
            /\ UNCHANGED <<nextOrderId, payment, nextPaymentId, priceEdits, Numbering,
                           typeDepense, depense, nextDepenseId>>

ajax_add_product(o, p) ==
    /\ ajax_add_product_on(o, p, product[p], order[o], FALSE)
    /\ UNCHANGED reqs

\* post_delete receiver of OrderItem in order/models.py, stock part: the
\* quantity it leaves on the product object it was handed
delete_order_item(qtyMem, n) == qtyMem + n

\* post_delete receiver of OrderItem in aprovision/signals.py, which runs
\* second on the same product object
annuler_mouvement_vente(p, qtyMem, n) ==
    LET q == qtyMem + n
    IN [qty |-> q,
        row |-> MouvementStock(p, "AJUSTEMENT_PLUS", n, q - n, q, NoRef)]

\* the quantity the delete branch of ajax_modify_order_item puts on its
\* product object before it deletes the row
restocked_by_view(prod, n) == prod.qty + n

\* ajax_modify_order_item once order_item, its product and its order are
\* loaded.  interrupted: the request dies between product.save() and
\* order_item.save() (remove, add), or between order_item.delete(), which is
\* one transaction with its receivers, and product.save() (delete).  save()
\* on a row that is gone inserts it again.
ajax_modify_order_item_on(o, p, action, order_item, prod, instance, interrupted) ==
    /\ order_item.id > 0
    /\ CASE action = "remove" ->
            LET it1 == OrderItem_save(
                          [order_item EXCEPT
                              !.qty = IF order_item.qty - 1 < 1 THEN 1
                                      ELSE order_item.qty - 1])
                s1 == Order_save(instance, [item[o] EXCEPT ![p] = it1])
            IN  /\ prod.qty + 1 <= MaxQty
                /\ product' = [product EXCEPT ![p] =
                                 Product_save(product[p], prod, prod.qty + 1)]
                /\ IF interrupted
                   THEN /\ UNCHANGED <<item, order>>
                        /\ last' = [Request("modify_item", action, o, FALSE)
                                      EXCEPT !.error = "interrompu"]
                   ELSE /\ item' = [item EXCEPT ![o][p] = it1]
                        /\ order' = [order EXCEPT ![o] = s1.db]
                        /\ last' = Request("modify_item", action, o, TRUE)
                /\ UNCHANGED <<nextOrderId, nextItemId, payment,
                               nextPaymentId, ledger, priceEdits, Numbering, typeDepense, depense,
                               nextDepenseId>>
         [] action = "add" ->
            IF out_of_stock(prod)
            THEN /\ ~ interrupted
                 /\ last' = [Request("modify_item", action, o, FALSE)
                               EXCEPT !.error = "rupture de stock"]
                 /\ UNCHANGED <<product, order, nextOrderId, item,
                                nextItemId, payment, nextPaymentId,
                                ledger, priceEdits, Numbering, typeDepense, depense, nextDepenseId>>
            ELSE LET it1 == OrderItem_save(
                              [order_item EXCEPT !.qty = order_item.qty + 1])
                     s1 == Order_save(instance, [item[o] EXCEPT ![p] = it1])
                 IN  /\ order_item.qty < MaxItemQty
                     /\ product' = [product EXCEPT ![p] =
                                      Product_save(product[p], prod,
                                                   prod.qty - 1)]
                     /\ IF interrupted
                        THEN /\ UNCHANGED <<item, order>>
                             /\ last' = [Request("modify_item", action, o,
                                                 FALSE)
                                           EXCEPT !.error = "interrompu"]
                        ELSE /\ item' = [item EXCEPT ![o][p] = it1]
                             /\ order' = [order EXCEPT ![o] = s1.db]
                             /\ last' = Request("modify_item", action, o,
                                                TRUE)
                     /\ UNCHANGED <<nextOrderId, nextItemId, payment,
                                    nextPaymentId, ledger, priceEdits, Numbering,
                                    typeDepense, depense, nextDepenseId>>
         [] action = "delete" ->
            LET n == order_item.qty
                q0 == restocked_by_view(prod, n)
                its1 == [item[o] EXCEPT ![p] = NoItem]
                q1 == delete_order_item(q0, n)
                s1 == Order_save(instance, its1)
                r2 == annuler_mouvement_vente(p, q1, n)
            IN  /\ Len(ledger) < MaxLedger
                /\ r2.qty <= MaxQty
                /\ item' = [item EXCEPT ![o][p] = NoItem]
                /\ order' = [order EXCEPT ![o] = s1.db]
                /\ ledger' = Append(ledger, r2.row)
                /\ product' = [product EXCEPT ![p] =
                                 Product_save(product[p], prod, r2.qty)]
                /\ last' = IF interrupted
                           THEN [Request("modify_item", action, o, FALSE)
                                   EXCEPT !.error = "interrompu"]
                           ELSE Request("modify_item", action, o, TRUE)
                /\ UNCHANGED <<nextOrderId, nextItemId, payment,
                               nextPaymentId, priceEdits, Numbering, typeDepense, depense,
                               nextDepenseId>>

ajax_modify_order_item(o, p, action) ==
    /\ item[o][p].id > 0
    /\ ajax_modify_order_item_on(o, p, action, item[o][p], product[p],
                                 order[o], FALSE)
    /\ UNCHANGED reqs

\* the products of an order's items, by descending OrderItem primary key:
\* the order in which the deletion collector sends post_delete
RECURSIVE ByPkDesc(_, _)
ByPkDesc(S, its) ==
    IF S = {} THEN <<>>
    ELSE LET p == CHOOSE x \in S : \A y \in S : its[x].id >= its[y].id
         IN <<p>> \o ByPkDesc(S \ {p}, its)

\* the ledger rows the post_delete receivers append for a cascade, each
\* item's product being loaded by the first receiver (prods: as loaded)
RECURSIVE CascadeRows(_, _, _)
CascadeRows(ps, its, prods) ==
    IF ps = <<>> THEN <<>>
    ELSE LET p == Head(ps)
             n == its[p].qty
             q1 == delete_order_item(prods[p].qty, n)
         IN <<annuler_mouvement_vente(p, q1, n).row>>
               \o CascadeRows(Tail(ps), its, prods)

\* reference_commande is SET_NULL on the deletion of its order
SetNull(rows, o) ==
    [i \in 1..Len(rows) |->
        IF rows[i].reference_commande = o
        THEN [rows[i] EXCEPT !.reference_commande = NoRef] ELSE rows[i]]

\* Order.delete once the collector has gathered the items its of order o
\* and the receivers have loaded their products prods: the cascade removes
\* the order's items and payments, and the receivers of each item save its
\* product
delete_order_on(o, its, prods) ==
    LET ps == order_items(its)
        rows == CascadeRows(ByPkDesc(ps, its), its, prods)
    IN  /\ Len(ledger) + Len(rows) <= MaxLedger
        /\ \A p \in ps : prods[p].qty + 2 * its[p].qty <= MaxQty
        /\ product' = [p \in Products |->
              IF p \in ps
              THEN Product_save(product[p], prods[p],
                      annuler_mouvement_vente(p,
                          delete_order_item(prods[p].qty, its[p].qty),
                          its[p].qty).qty)
              ELSE product[p]]
        /\ ledger' = SetNull(ledger, o) \o rows
        /\ item' = [item EXCEPT ![o] = [p \in Products |-> NoItem]]
        /\ payment' = {x \in payment : x.order # o}
        /\ order' = [order EXCEPT ![o] = NoOrder]
        /\ last' = Request("delete_order", "", o, TRUE)
        /\ UNCHANGED <<nextOrderId, nextItemId, nextPaymentId, priceEdits, Numbering,
                       typeDepense, depense, nextDepenseId>>

\* delete_order: Order.delete cascades to the order's items and payments
delete_order(o) ==
    /\ order[o].exists
    /\ delete_order_on(o, item[o], product)
    /\ UNCHANGED reqs

\* ------------------------------------------------------------ payments
\* a validation that does not compare the amount with the balance
payment_error_unchecked_balance(post, amount, remaining) ==
    IF ~post THEN "methode non autorisee"
    ELSE IF amount <= 0 THEN "montant non positif"
    ELSE ""

\* the validation of ajax_add_payment: the error it answers, "" for none
payment_error(post, amount, remaining) ==
    IF ~post THEN "methode non autorisee"
    ELSE IF amount <= 0 THEN "montant non positif"
    ELSE IF amount > remaining THEN "depasse le montant restant"
    ELSE ""

\* a delete that removes every payment of the order
payments_after_delete_all(pays, o, pid) == {x \in pays : x.order # o}

\* the rows left by the delete of ajax_delete_payment
payments_after_delete(pays, o, pid) == {x \in pays : x.id # pid}

ajax_add_payment(o, post, amount) ==
    /\ order[o].exists
    /\ LET ord == order[o]
           remaining == remaining_amount(ord, o, payment)
           error == payment_error(post, amount, remaining)
       IN  IF error # ""
           THEN /\ last' = [Request("add_payment", "", o, FALSE)
                              EXCEPT !.error = error]
                /\ UNCHANGED <<product, order, nextOrderId, item, nextItemId,
                               payment, nextPaymentId, ledger, priceEdits, Numbering,
                               typeDepense, depense, nextDepenseId, reqs>>
           ELSE LET pays1 == payment \cup {[id |-> nextPaymentId, order |-> o,
                                            amount |-> amount]}
                    \* post_save receiver, then the view, on the same object
                    paid == is_fully_paid(ord, o, pays1)
                    s1 == Order_save([ord EXCEPT !.is_paid = paid], item[o])
                IN  /\ nextPaymentId <= MaxPayments
                    /\ payment' = pays1
                    /\ nextPaymentId' = nextPaymentId + 1
                    /\ order' = [order EXCEPT ![o] = s1.db]
                    /\ last' = [Request("add_payment", "", o, TRUE)
                                   EXCEPT !.pid = nextPaymentId,
                                          !.amount = amount,
                                          !.rem0 = remaining,
                                          !.paid0 = ord.is_paid,
                                          !.fully0 = is_fully_paid(ord, o, payment)]
                    /\ UNCHANGED <<product, nextOrderId, item, nextItemId,
                                   ledger, priceEdits, Numbering, typeDepense, depense,
                                   nextDepenseId, reqs>>

ajax_delete_payment(o, pid, post) ==
    /\ order[o].exists
    /\ \E x \in payment : x.id = pid /\ x.order = o
    /\ LET ord == order[o]
       IN  IF ~post
           THEN /\ last' = [Request("delete_payment", "", o, FALSE)
                              EXCEPT !.error = "methode non autorisee"]
                /\ UNCHANGED <<product, order, nextOrderId, item, nextItemId,
                               payment, nextPaymentId, ledger, priceEdits, Numbering,
                               typeDepense, depense, nextDepenseId, reqs>>
           ELSE LET pays1 == payments_after_delete(payment, o, pid)
                    \* post_delete receiver writes is_paid, then the view
                    \* recomputes it on its own object and saves
                    paid == is_fully_paid(ord, o, pays1)
                    s1 == Order_save([ord EXCEPT !.is_paid = paid], item[o])
                    undo == last.op = "add_payment" /\ last.ok /\ last.pid = pid
                IN  /\ payment' = pays1
                    /\ order' = [order EXCEPT ![o] = s1.db]
                    /\ last' = IF undo
                               THEN [last EXCEPT !.op = "delete_payment",
                                                 !.undo = TRUE]
                               ELSE Request("delete_payment", "", o, TRUE)
                    /\ UNCHANGED <<product, nextOrderId, item, nextItemId,
                                   nextPaymentId, ledger, priceEdits, Numbering,
                                   typeDepense, depense, nextDepenseId, reqs>>

\* ------------------------------------------------------------ stock
\* the tables a stock transaction writes
StockTables == [product |-> product, typeDepense |-> typeDepense,
                depense |-> depense, nextDepenseId |-> nextDepenseId,
                ledger |-> ledger]

\* a block that keeps what was written before the statement that raised
transaction_autocommit(before, partial, done, failed) ==
    IF failed THEN partial ELSE done

\* with transaction.atomic(): the block's writes are committed together,
\* or none of them when a statement raises
transaction_atomic(before, partial, done, failed) ==
    IF failed THEN before ELSE done

\* MouvementStock.save: cout_total from the unit price when price and
\* quantity are both set; raises says Decimal * float was attempted
MouvementStock_save(row, as_float) ==
    LET derive == row.prix_achat_unitaire # Null
                  /\ row.prix_achat_unitaire # 0 /\ row.quantite # 0
        abs == IF row.quantite < 0 THEN 0 - row.quantite ELSE row.quantite
    IN [raises |-> derive /\ as_float,
        row |-> IF derive
                THEN [row EXCEPT !.cout_total = abs * row.prix_achat_unitaire]
                ELSE row]

\* an ENTREE row that is not linked to its Depense
mouvement_entree_unlinked(p, stock_avant, obj, quantite, prix, cout_total, dep) ==
    [MouvementStock(p, "ENTREE", quantite, stock_avant, obj.qty, NoRef)
        EXCEPT !.prix_achat_unitaire = prix, !.cout_total = cout_total]

\* the ENTREE row create_approvisionnement hands to MouvementStock.save
mouvement_entree(p, stock_avant, obj, quantite, prix, cout_total, dep) ==
    [MouvementStock(p, "ENTREE", quantite, stock_avant, obj.qty, NoRef)
        EXCEPT !.prix_achat_unitaire = prix, !.cout_total = cout_total,
               !.reference_depense = dep.id]

\* ApprovisionnementManager.create_approvisionnement on the product object
\* produit, started on the tables t.  fault = k > 0: statement k of the
\* block raises (1 expense type, 2 Depense, 3 product, 4 ledger row).
\* The result: whether it raised, and the tables it leaves.
create_approvisionnement(t, p, produit, quantite, prix, as_float, fault) ==
    LET t1 == [t EXCEPT !.typeDepense = @ \cup {"Approvisionnement"}]
        cout_total == quantite * prix
        dep == [id |-> t.nextDepenseId, montant |-> cout_total]
        t2 == [t1 EXCEPT !.depense = @ \cup {dep},
                         !.nextDepenseId = @ + 1]
        stock_avant == produit.qty
        obj == Product_save(t.product[p], produit, produit.qty + quantite)
        t3 == [t2 EXCEPT !.product[p] = obj]
        mv == MouvementStock_save(
                 mouvement_entree(p, stock_avant, obj, quantite, prix,
                                  cout_total, dep), as_float)
        t4 == [t3 EXCEPT !.ledger = Append(@, mv.row)]
        raised == IF fault > 0 THEN fault ELSE IF mv.raises THEN 4 ELSE 0
        partial == CASE raised = 1 -> t [] raised = 2 -> t1
                     [] raised = 3 -> t2 [] OTHER -> t3
    IN [raised |-> raised > 0,
        tables |-> transaction_atomic(t, partial, t4, raised > 0)]

\* the tables after a stock request
StockWritten(t) ==
    /\ product' = t.product
    /\ typeDepense' = t.typeDepense
    /\ depense' = t.depense
    /\ nextDepenseId' = t.nextDepenseId
    /\ ledger' = t.ledger

\* approvisionnement_view once produit is loaded: quantity and price come
\* from int() and float() of the posted fields
approvisionnement_view_on(p, produit, quantite, prix_achat, fault) ==
    /\ IF quantite <= 0 \/ prix_achat <= 0
       THEN /\ fault = 0
            /\ last' = [Request("approvisionnement", "", NoRef, FALSE)
                          EXCEPT !.error = "doivent etre positifs"]
            /\ StockWritten(StockTables)
       ELSE LET r == create_approvisionnement(StockTables, p, produit,
                                              quantite, prix_achat, TRUE,
                                              fault)
            IN  /\ produit.qty + quantite <= MaxQty
                /\ Len(ledger) < MaxLedger
                /\ nextDepenseId <= MaxDepenses
                /\ StockWritten(r.tables)
                /\ last' = IF r.raised
                           THEN [Request("approvisionnement", "", NoRef,
                                         FALSE)
                                   EXCEPT !.error = "erreur lors de la creation"]
                           ELSE Request("approvisionnement", "", NoRef, TRUE)
    /\ UNCHANGED <<order, nextOrderId, item, nextItemId, payment,
                   nextPaymentId, priceEdits, Numbering>>

approvisionnement_view(p, quantite, prix_achat, fault) ==
    /\ approvisionnement_view_on(p, product[p], quantite, prix_achat, fault)
    /\ UNCHANGED reqs

\* adjustment rows that carry the quantity without its sign
mouvement_ajustement_unsigned(p, action, quantity, stock_avant, obj) ==
    CASE action = "remove" ->
            <<MouvementStock(p, "AJUSTEMENT_MOINS", quantity, stock_avant,
                             obj.qty, NoRef)>>
      [] action = "set" /\ quantity # stock_avant ->
            <<MouvementStock(p, IF quantity > stock_avant
                                THEN "AJUSTEMENT_PLUS"
                                ELSE "AJUSTEMENT_MOINS",
                             Max(quantity - stock_avant,
                                 stock_avant - quantity),
                             stock_avant, obj.qty, NoRef)>>
      [] OTHER -> <<>>

\* the ledger row of a manual adjustment, none (<<>>) when nothing moved
mouvement_ajustement(p, action, quantity, stock_avant, obj) ==
    CASE action = "remove" ->
            <<MouvementStock(p, "AJUSTEMENT_MOINS", 0 - quantity, stock_avant,
                             obj.qty, NoRef)>>
      [] action = "set" /\ quantity > stock_avant ->
            <<MouvementStock(p, "AJUSTEMENT_PLUS", quantity - stock_avant,
                             stock_avant, obj.qty, NoRef)>>
      [] action = "set" /\ quantity < stock_avant ->
            <<MouvementStock(p, "AJUSTEMENT_MOINS",
                             0 - (stock_avant - quantity), stock_avant,
                             obj.qty, NoRef)>>
      [] OTHER -> <<>>

\* quick_stock_update once product is loaded, with QuickStockForm: an add
\* without a unit price does not validate.  fault as for
\* create_approvisionnement; for remove and set, 4 is the ledger insert.
quick_stock_update_on(p, prod, action, quantity, prix_achat, fault) ==
    /\ IF action = "add" /\ prix_achat = 0
       THEN /\ fault = 0
            /\ last' = [Request("quick_stock", action, NoRef, FALSE)
                          EXCEPT !.error = "prix d'achat obligatoire"]
            /\ StockWritten(StockTables)
       ELSE IF action = "add"
       THEN LET priced == [prod EXCEPT !.prix_achat = prix_achat]
                t0 == [StockTables EXCEPT !.product[p] = priced]
                r == create_approvisionnement(t0, p, priced, quantity,
                                              prix_achat, FALSE, fault)
            IN  /\ prod.qty + quantity <= MaxQty
                /\ Len(ledger) < MaxLedger
                /\ nextDepenseId <= MaxDepenses
                /\ StockWritten(transaction_atomic(StockTables, r.tables,
                                                   r.tables, r.raised))
                /\ last' = IF r.raised
                           THEN [Request("quick_stock", action, NoRef, FALSE)
                                   EXCEPT !.error = "erreur"]
                           ELSE Request("quick_stock", action, NoRef, TRUE)
       ELSE IF action = "remove" /\ prod.qty < quantity
       THEN /\ fault = 0
            /\ last' = [Request("quick_stock", action, NoRef, FALSE)
                          EXCEPT !.error = "stock insuffisant"]
            /\ StockWritten(StockTables)
       ELSE LET stock_avant == prod.qty
                obj == Product_save(product[p], prod,
                                    IF action = "remove"
                                    THEN prod.qty - quantity ELSE quantity)
                rows == mouvement_ajustement(p, action, quantity,
                                             stock_avant, obj)
                t1 == [StockTables EXCEPT !.product[p] = obj]
                t2 == [t1 EXCEPT !.ledger =
                          IF rows = <<>> THEN @
                          ELSE Append(@, MouvementStock_save(rows[1],
                                                             FALSE).row)]
                raised == fault > 0
            IN  /\ fault \in {0, 4}
                /\ fault = 4 => rows # <<>>
                /\ Len(ledger) + Len(rows) <= MaxLedger
                /\ StockWritten(transaction_atomic(StockTables, t1, t2,
                                                   raised))
                /\ last' = IF raised
                           THEN [Request("quick_stock", action, NoRef, FALSE)
                                   EXCEPT !.error = "erreur"]
                           ELSE Request("quick_stock", action, NoRef, TRUE)
    /\ UNCHANGED <<order, nextOrderId, item, nextItemId, payment,
                   nextPaymentId, priceEdits, Numbering>>

quick_stock_update(p, action, quantity, prix_achat, fault) ==
    /\ quick_stock_update_on(p, product[p], action, quantity, prix_achat,
                             fault)
    /\ UNCHANGED reqs

\* ------------------------------------------------------------ two workers
\* the requests the workers have taken so far
RECURSIVE SumServed(_)
SumServed(W) ==
    IF W = {} THEN 0
    ELSE LET w == CHOOSE v \in W : TRUE
         IN reqs[w].served + SumServed(W \ {w})

Served == SumServed(Workers)

\* a worker takes a request and its handler loads the rows it works on: the
\* product table as it is read, the order's items and the order
load_request(w, op, action, o, p, n, cost) ==
    /\ reqs[w].op = ""
    /\ Served < MaxServed
    /\ op \in {"add_item", "modify_item", "delete_order"} => order[o].exists
    /\ op = "modify_item" => item[o][p].id > 0
    /\ reqs' = [reqs EXCEPT ![w] =
                  [op |-> op, action |-> action, order |-> o, p |-> p,
                   n |-> n, cost |-> cost, product |-> product,
                   item |-> item[o], instance |-> order[o],
                   served |-> reqs[w].served + 1]]
    /\ UNCHANGED <<product, order, nextOrderId, item, nextItemId, payment,
                   nextPaymentId, ledger, priceEdits, Numbering, typeDepense, depense,
                   nextDepenseId, last>>

\* the insert of an OrderItem whose order is gone violates its foreign key
order_gone(r) == ~ order[r.order].exists

\* the rest of the handler, on the rows it loaded.  When the order was
\* deleted meanwhile, get_or_create raises before any write and
\* order_item.save() raises after product.save()
complete_request(w) ==
    LET r == reqs[w]
    IN  /\ r.op # ""
        /\ reqs' = [reqs EXCEPT ![w] =
                      [NoRequest EXCEPT !.served = r.served]]
        /\ CASE r.op = "add_item" ->
                  IF order_gone(r)
                  THEN /\ last' = [Request("add_item", "", r.order, FALSE)
                                     EXCEPT !.error = "commande supprimee"]
                       /\ UNCHANGED <<product, order, nextOrderId, item,
                                      nextItemId, payment, nextPaymentId,
                                      ledger, priceEdits, Numbering, typeDepense,
                                      depense, nextDepenseId>>
                  ELSE ajax_add_product_on(r.order, r.p, r.product[r.p],
                                           r.instance, FALSE)
             [] r.op = "modify_item" ->
                  ajax_modify_order_item_on(
                      r.order, r.p, r.action, r.item[r.p], r.product[r.p],
                      r.instance,
                      /\ order_gone(r)
                      /\ r.action # "delete"
                      /\ ~ (r.action = "add" /\ out_of_stock(r.product[r.p])))
             [] r.op = "delete_order" ->
                  delete_order_on(r.order, r.item, r.product)
             [] r.op = "quick_stock" ->
                  quick_stock_update_on(r.p, r.product[r.p], r.action, r.n,
                                        r.cost, 0)
             [] r.op = "approvisionnement" ->
                  approvisionnement_view_on(r.p, r.product[r.p], r.n, r.cost,
                                            0)

\* the order, item and payment requests
Next ==
    \/ CreateOrderView
    \/ \E o \in OrderIds, d \in 0..MaxDiscount : OrderUpdateView(o, d)
    \/ \E o \in OrderIds, p \in Products : ajax_add_product(o, p)
    \/ \E o \in OrderIds, p \in Products, a \in {"add", "remove", "delete"} :
          ajax_modify_order_item(o, p, a)
    \/ \E o \in OrderIds : delete_order(o)
    \/ \E o \in OrderIds, post \in BOOLEAN, a \in 0..MaxAmount :
          ajax_add_payment(o, post, a)
    \/ \E o \in OrderIds, pid \in 1..MaxPayments, post \in BOOLEAN :
          ajax_delete_payment(o, pid, post)

Spec == Init /\ [][Next]_vars

\* the order and item requests while product prices are being edited
NextPrice ==
    \/ CreateOrderView
    \/ \E o \in OrderIds, d \in 0..MaxDiscount : OrderUpdateView(o, d)
    \/ \E p \in Products, v \in 1..MaxPrice, d \in 0..MaxPromo :
          edit_product(p, v, d)
    \/ \E o \in OrderIds, p \in Products : ajax_add_product(o, p)
    \/ \E o \in OrderIds, p \in Products, a \in {"add", "remove", "delete"} :
          ajax_modify_order_item(o, p, a)
    \/ \E o \in OrderIds : delete_order(o)

SpecPrice == Init /\ [][NextPrice]_vars

\* the stock requests, in which any statement of the transaction may raise
NextStock ==
    \/ \E p \in Products, q \in 0..MaxStockQty, c \in 0..MaxCost,
          fault \in 0..4 : approvisionnement_view(p, q, c, fault)
    \/ \E p \in Products, a \in {"add", "remove", "set"},
          q \in 0..MaxStockQty, c \in 0..MaxCost, fault \in 0..4 :
          quick_stock_update(p, a, q, c, fault)

SpecStock == Init /\ [][NextStock]_vars

\* the order and item requests when an item request may die between its
\* two writes
NextInterrupted ==
    \/ CreateOrderView
    \/ \E o \in OrderIds, p \in Products, interrupted \in BOOLEAN :
          ajax_add_product_on(o, p, product[p], order[o], interrupted)
          /\ UNCHANGED reqs
    \/ \E o \in OrderIds, p \in Products, a \in {"add", "remove", "delete"},
          interrupted \in BOOLEAN :
          ajax_modify_order_item_on(o, p, a, item[o][p], product[p],
                                    order[o], interrupted)
          /\ UNCHANGED reqs
    \/ \E o \in OrderIds : delete_order(o)

SpecInterrupted == Init /\ [][NextInterrupted]_vars

\* two workers serving the requests that write Product.qty, each request
\* in two steps
NextRace ==
    \/ CreateOrderView
    \/ \E w \in Workers, o \in OrderIds, p \in Products :
          load_request(w, "add_item", "", o, p, 0, 0)
    \/ \E w \in Workers, o \in OrderIds, p \in Products,
          a \in {"add", "remove", "delete"} :
          load_request(w, "modify_item", a, o, p, 0, 0)
    \/ \E w \in Workers, o \in OrderIds :
          load_request(w, "delete_order", "", o, "p1", 0, 0)
    \/ \E w \in Workers, o \in OrderIds, p \in Products,
          a \in {"add", "remove", "set"}, q \in 0..MaxStockQty :
          load_request(w, "quick_stock", a, o, p, q,
                       IF a = "add" THEN MaxCost ELSE 0)
    \/ \E w \in Workers, o \in OrderIds, p \in Products :
          load_request(w, "approvisionnement", "", o, p, MaxStockQty,
                       MaxCost)
    \/ \E w \in Workers : complete_request(w)

SpecRace == Init /\ [][NextRace]_vars

\* ------------------------------------------------------------ order numbering
\* the last sequence number generate_order_number tries before its fallback
MaxSequence == 999

MaxDates == 2
MaxMinutes == 1
MaxMillis == 2
MaxTouched == 2
MaxCreated == 2
MaxSaves == 2

\* business dates, minutes of the clock and its milliseconds
Dates == 1..MaxDates
Minutes == 1..MaxMinutes
Millis == 1..MaxMillis

\* the primary keys handed out to the orders created from here on
FirstNewPk == MaxSequence + 3

\* the orders the requests edit, save again or delete: their rows are the
\* elements of orderTitles
Touchable == (1..MaxTouched) \cup (FirstNewPk..(FirstNewPk + MaxCreated - 1))

\* f"CMD-{date_part}-{time_part}-{sequence:03d}", and the fallback
\* f"CMD-{date_part}-{time_part}-{microsecond_part}" with three digits of
\* the microseconds: both render n on three digits, so that the two strings
\* are equal exactly when the four parts are
order_number(date_part, time_part, n) ==
    [kind |-> "CMD", date |-> date_part, time |-> time_part, n |-> n]

\* a title typed by the user, 'Order - {id}' of auto_create_order_view
UserTitle(n) == [kind |-> "user", date |-> 0, time |-> 0, n |-> n]

\* a title of spaces only
Spaces == [kind |-> " ", date |-> 0, time |-> 0, n |-> 0]

\* the other rows of the Order table: the orders of primary key
\* MaxTouched + 1 .. bulk.n, which carry the date bulk.date and the titles
\* that generate_order_number gave them in the first minute of the first
\* date, order k the title numbered k
BulkPks(bulk) == (MaxTouched + 1)..bulk.n

BulkTitle(k) == order_number(1, 1, k)

\* not self.title or self.title.strip() == ''
title_blank_always(title) == TRUE

title_blank(title) == title.kind \in {"", " "}

\* Order.objects.filter(date=self.date,
\*                      title__startswith=f"CMD-{date_part}-").count()
today_orders_count(self, rows, bulk) ==
    Cardinality({r \in rows : /\ r.date = self.date
                              /\ r.title.kind = "CMD"
                              /\ r.title.date = self.date})
    + (IF bulk.date = self.date /\ BulkTitle(0).date = self.date
       THEN Cardinality(BulkPks(bulk)) ELSE 0)

\* Order.objects.filter(title=order_number).exclude(pk=self.pk).exists() for
\* the titles order_number(date_part, time_part, n): the numbers n for which
\* it is true
held_numbers(pk, date_part, time_part, rows, bulk) ==
    {r.title.n : r \in {x \in rows :
        /\ x.pk # pk
        /\ x.title = order_number(date_part, time_part, x.title.n)}}
    \cup (IF BulkTitle(0) = order_number(date_part, time_part, 0)
          THEN BulkPks(bulk) ELSE {})

\* Order.objects.filter(title=title).exclude(pk=pk).exists()
title_exists(title, pk, rows, bulk) ==
    /\ title.kind = "CMD"
    /\ title.n \in held_numbers(pk, title.date, title.time, rows, bulk)

\* the last sequence number the loop probes: the seed is probed whatever it
\* is, a later one only when the `sequence > 999` test let the loop go on
probe_limit_doubled(seed) ==
    IF seed > 2 * MaxSequence THEN seed ELSE 2 * MaxSequence

probe_limit(seed) == IF seed > MaxSequence THEN seed ELSE MaxSequence

\* generate_order_number: the loop probes seed, seed + 1, ... and returns
\* the first number whose title no other row holds; when every number up to
\* probe_limit is held it returns the millisecond title, without a probe
generate_order_number(self, rows, bulk, now) ==
    LET seed == today_orders_count(self, rows, bulk) + 1
        limit == probe_limit(seed)
        free == (seed..limit) \
                held_numbers(self.pk, self.date, now.time, rows, bulk)
    IN  IF free # {}
        THEN LET k == CHOOSE f \in free : \A g \in free : f <= g
             IN  [title |-> order_number(self.date, now.time, k),
                  probes |-> k - seed + 1, fallback |-> FALSE,
                  regenerated |-> TRUE]
        ELSE [title |-> order_number(self.date, now.time, now.ms),
              probes |-> limit - seed + 1, fallback |-> TRUE,
              regenerated |-> TRUE]

\* Order.save, the title: generated only when it is blank
Order_save_title(self, rows, bulk, now) ==
    IF title_blank(self.title)
    THEN generate_order_number(self, rows, bulk, now)
    ELSE [title |-> self.title, probes |-> 0, fallback |-> FALSE,
          regenerated |-> FALSE]

\* the shop's tables, which the numbering of orders leaves alone
Shop == <<product, order, nextOrderId, item, nextItemId, payment, nextPaymentId, ledger, priceEdits, typeDepense, depense, nextDepenseId>>

\* the record of an Order.save: what it was given, what it generated, and
\* whether another row held that title when it was generated
SaveRecord(op, pk, before, g) ==
    [op |-> op, pk |-> pk, title |-> g.title, before |-> before,
     probes |-> g.probes, fallback |-> g.fallback,
     regenerated |-> g.regenerated,
     taken |-> title_exists(g.title, pk, orderTitles, bulkOrders)
               \/ \E r \in orderTitles : r.pk # pk /\ r.title = g.title,
     saves |-> generated.saves + 1]

\* Order.save of the instance self: an INSERT under a fresh primary key when
\* self.pk is None (0 here), an UPDATE of its row otherwise
Order_save_row(self, now, op) ==
    \E g \in {Order_save_title(self, orderTitles, bulkOrders, now)},
       pk \in {IF self.pk = 0 THEN nextTitlePk ELSE self.pk} :
        /\ generated.saves < MaxSaves
        /\ orderTitles' = {r \in orderTitles : r.pk # pk} \cup
                          {[pk |-> pk, date |-> self.date, title |-> g.title]}
        /\ nextTitlePk' = IF self.pk = 0 THEN nextTitlePk + 1 ELSE nextTitlePk
        /\ generated' = SaveRecord(op, pk, self.title, g)
        /\ UNCHANGED <<Shop, reqs, last, bulkOrders>>

\* CreateOrderView.form_valid, the date and the title of the form
CreateOrderView_form(date, title, now) ==
    /\ nextTitlePk < FirstNewPk + MaxCreated
    /\ Order_save_row([pk |-> 0, date |-> date, title |-> title], now,
                      "create")

\* OrderUpdateView with OrderEditForm, the date and the title of the form
OrderUpdateView_form(pk, date, title, now) ==
    /\ \E r \in orderTitles : r.pk = pk
    /\ Order_save_row([pk |-> pk, date |-> date, title |-> title], now,
                      "update")

\* the instance.save() of the item and payment requests and signals: the
\* order as it was loaded
Order_save_again(pk, now) ==
    \E r \in orderTitles :
        /\ r.pk = pk
        /\ Order_save_row(r, now, "resave")

\* delete_order, the row of the order
Order_delete(pk) ==
    /\ \E r \in orderTitles : r.pk = pk
    /\ orderTitles' = {r \in orderTitles : r.pk # pk}
    /\ generated' = [generated EXCEPT !.op = "delete", !.pk = pk]
    /\ UNCHANGED <<Shop, reqs, last, bulkOrders, nextTitlePk>>

\* Order.save of a new order up to the return of generate_order_number: the
\* worker holds the instance and its title, the row is not written yet
Order_save_generate(w, date, title, now) ==
    \E g \in {Order_save_title([pk |-> 0, date |-> date, title |-> title],
                               orderTitles, bulkOrders, now)} :
        /\ reqs[w].op = ""
        /\ Served < MaxCreated
        /\ reqs' = [reqs EXCEPT ![w] =
                      [NoRequest EXCEPT
                          !.op = "create_order",
                          !.n = nextTitlePk,
                          !.instance = [pk |-> 0, date |-> date,
                                        title |-> g.title],
                          !.served = reqs[w].served + 1]]
        /\ generated' = SaveRecord("generate", 0, title, g)
        /\ UNCHANGED <<Shop, last, orderTitles, bulkOrders, nextTitlePk>>

\* the rest of that Order.save: super().save() inserts the row
Order_save_insert(w) ==
    LET self == reqs[w].instance
    IN  /\ reqs[w].op = "create_order"
        /\ orderTitles' = orderTitles \cup
              {[pk |-> nextTitlePk, date |-> self.date,
                title |-> self.title]}
        /\ nextTitlePk' = nextTitlePk + 1
        /\ reqs' = [reqs EXCEPT ![w] =
                      [NoRequest EXCEPT !.served = reqs[w].served]]
        /\ generated' = [generated EXCEPT
              !.op = "insert", !.pk = nextTitlePk, !.title = self.title,
              !.taken = title_exists(self.title, 0, orderTitles, bulkOrders)]
        /\ UNCHANGED <<Shop, last, bulkOrders>>

\* the Order table after n orders were created in the first minute of the
\* first date, which carry the date given now
InitNumbered ==
    /\ InitShop
    /\ \E n \in {0, MaxSequence - 1, MaxSequence, MaxSequence + 2},
          date \in Dates :
          /\ bulkOrders = [n |-> n, date |-> date]
          /\ orderTitles = {[pk |-> k, date |-> date, title |-> BulkTitle(k)] :
                               k \in {j \in 1..MaxTouched : j <= n}}
    /\ nextTitlePk = FirstNewPk
    /\ generated = NoSave

\* the requests that save or delete an order, one after the other
NextNumbering ==
    \/ \E date \in Dates, title \in {NoTitle, Spaces, UserTitle(1)},
          time \in Minutes, ms \in Millis :
          CreateOrderView_form(date, title, [time |-> time, ms |-> ms])
    \/ \E pk \in Touchable, date \in Dates, title \in {NoTitle, UserTitle(1)},
          time \in Minutes, ms \in Millis :
          OrderUpdateView_form(pk, date, title, [time |-> time, ms |-> ms])
    \/ \E pk \in Touchable, time \in Minutes, ms \in Millis :
          Order_save_again(pk, [time |-> time, ms |-> ms])
    \/ \E pk \in Touchable : Order_delete(pk)

SpecNumbering == InitNumbered /\ [][NextNumbering]_vars

\* two workers creating orders, each Order.save in two steps, and orders
\* being deleted
NextNumberingRace ==
    \/ \E w \in Workers, date \in Dates, time \in Minutes, ms \in Millis :
          Order_save_generate(w, date, NoTitle, [time |-> time, ms |-> ms])
    \/ \E w \in Workers : Order_save_insert(w)
    \/ \E pk \in Touchable : Order_delete(pk)

SpecNumberingRace == InitNumbered /\ [][NextNumberingRace]_vars

\* ------------------------------------------------------------ properties
Remaining(o) == remaining_amount(order[o], o, payment)
ItemsTotal(o) == SumTotalPrice(order_items(item[o]), item[o])
RemainingAfter(o) == remaining_amount(order'[o], o, payment')
ItemsTotalAfter(o) == SumTotalPrice(order_items(item'[o]), item'[o])
ItemRequest == last.op \in {"add_item", "modify_item"} /\ last.ok
PaymentRequest == last.op \in {"add_payment", "delete_payment"} /\ last.ok
Settled(o) == Remaining(o) <= 0 /\ order[o].final_value > 0
WithinFinalValue ==
    \A o \in OrderIds :
        order[o].exists => total_payments(o, payment) <= order[o].final_value
\* the step serves a replenishment: approvisionnement_view, or a quick stock
\* add
ReplenishmentServed ==
    \/ last'.op = "approvisionnement"
    \/ last'.op = "quick_stock" /\ last'.action = "add"
Tables == <<product, order, nextOrderId, item, nextItemId, payment,
            nextPaymentId, ledger, priceEdits, Numbering, typeDepense, depense, nextDepenseId>>

\* C1: after every OrderItem create, quantity change and delete, the deletion
\* of the last item included, the persisted Order.value is the sum of
\* total_price over the order's items, 0 when it has none.
C1_ValueIsSumOfItems ==
    ItemRequest => order[last.order].value = ItemsTotal(last.order)

\* C2: modify_item(delete) of an item with qty N raises the product's qty by
\* exactly N over its persisted value before the delete, and the parent
\* order is recomputed.
C2_DeleteRestoresExactlyN ==
    [][\A o \in OrderIds, p \in Products :
          ajax_modify_order_item(o, p, "delete") =>
             /\ product'[p].qty = product[p].qty + item[o][p].qty
             /\ order'[o].value = ItemsTotalAfter(o)
             /\ order'[o].final_value = order'[o].value - order'[o].discount]_vars

\* C3: deleting an order removes all of its items and payments and raises
\* each referenced product's qty by exactly the qty of the deleted items of
\* that product.
C3_OrderDeleteRestoresStock ==
    [][\A o \in OrderIds :
          delete_order(o) =>
             /\ order_items(item'[o]) = {}
             /\ payments(o, payment') = {}
             /\ \A p \in Products :
                   product'[p].qty = product[p].qty + item[o][p].qty]_vars

\* C4 as stated: in every reachable state an order whose persisted is_paid is
\* True has remaining_amount() <= 0 and final_value > 0.
C4_PaidImpliesSettled ==
    \A o \in OrderIds : order[o].exists /\ order[o].is_paid => Settled(o)

\* C4 amended: right after a successful add_payment or delete_payment the
\* order it addressed, when its persisted is_paid is True, has
\* remaining_amount() <= 0 and final_value > 0.
C4_PaidImpliesSettledAfterPayment ==
    PaymentRequest /\ order[last.order].is_paid => Settled(last.order)

C4_Witness ==
    /\ PaymentRequest
    /\ order[last.order].is_paid
    /\ order_items(item[last.order]) # {}

\* C5: the persisted is_paid of an order changes only in a successful
\* add_payment or delete_payment on it, after which it equals
\* is_fully_paid(); item creation, increment, decrement and deletion leave it
\* unchanged.
C5_PaidFlagOnlyByPayments ==
    [][/\ \A o \in OrderIds :
            order[o].exists /\ order'[o].exists
            /\ order'[o].is_paid # order[o].is_paid
               => /\ last'.op \in {"add_payment", "delete_payment"}
                  /\ last'.ok /\ last'.order = o
       /\ last'.op \in {"add_payment", "delete_payment"} /\ last'.ok
            => order'[last'.order].is_paid
                  = is_fully_paid(order'[last'.order], last'.order, payment')]_vars

C5_Witness ==
    /\ ItemRequest
    /\ order[last.order].is_paid
    /\ ~ is_fully_paid(order[last.order], last.order, payment)

\* C6 as stated: in every reachable state the sum of an order's payments
\* does not exceed its final_value.
C6_PaymentsWithinFinalValue == WithinFinalValue

\* C6 amended: a successful add_payment leaves the order's payments within
\* its final_value, and an order whose payments are within final_value is
\* taken above it only by a step that lowers the persisted final_value:
\* modify_item(remove), modify_item(delete), the discount edit, or the
\* add_item that puts the first item on an order without items, whose
\* recomputation replaces whatever total the row still held.
C6_OnlyShrinkingBreaksIt ==
    [][WithinFinalValue =>
          \/ WithinFinalValue'
          \/ last'.op = "edit_order"
          \/ last'.op = "modify_item" /\ last'.action \in {"remove", "delete"}
          \/ /\ last'.op = "add_item" /\ last'.ok
             /\ order_items(item[last'.order]) = {}]_vars

C6_Witness ==
    /\ last.op = "add_payment" /\ last.ok
    /\ total_payments(last.order, payment) = order[last.order].final_value
    /\ Cardinality(payments(last.order, payment)) = 2

\* C7: add_payment with an amount above remaining_amount(), or an amount
\* <= 0, answers an error and persists nothing.
C7_RejectedPaymentPersistsNothing ==
    [][\A o \in OrderIds, a \in 0..(MaxAmount + 1) :
          ajax_add_payment(o, TRUE, a) /\ (a <= 0 \/ a > Remaining(o))
             => ~ last'.ok /\ UNCHANGED Tables]_vars

C7_Witness ==
    /\ last.op = "add_payment" /\ ~ last.ok
    /\ last.error = "depasse le montant restant"
    /\ order[last.order].final_value > 0

\* C8 as stated: add_payment of A with 0 < A <= remaining_amount() on an
\* order with final_value > 0 succeeds and lowers remaining_amount() by A,
\* and deleting that payment next returns remaining_amount() and is_paid to
\* their values before the payment.
C8_DeleteRestoresBalanceAndFlag ==
    [][/\ \A o \in OrderIds, a \in 1..MaxAmount :
            ajax_add_payment(o, TRUE, a) /\ order[o].final_value > 0
            /\ a <= Remaining(o)
               => last'.ok /\ RemainingAfter(o) = Remaining(o) - a
       /\ last'.op = "delete_payment" /\ last'.undo
            => /\ RemainingAfter(last'.order) = last'.rem0
               /\ order'[last'.order].is_paid = last'.paid0]_vars

\* C8 amended: the same, except that the delete returns is_paid to the value
\* is_fully_paid() had before the payment (False), which is the persisted
\* flag's earlier value only when that flag was not stale.
C8_DeleteRestoresBalance ==
    [][/\ \A o \in OrderIds, a \in 1..MaxAmount :
            ajax_add_payment(o, TRUE, a) /\ order[o].final_value > 0
            /\ a <= Remaining(o)
               => last'.ok /\ RemainingAfter(o) = Remaining(o) - a
       /\ last'.op = "delete_payment" /\ last'.undo
            => /\ RemainingAfter(last'.order) = last'.rem0
               /\ order'[last'.order].is_paid = last'.fully0
               /\ ~ last'.fully0]_vars

C8_Witness ==
    /\ last.op = "delete_payment" /\ last.undo
    /\ payments(last.order, payment) # {}
    /\ Remaining(last.order) > 0

\* C9: add_item and modify_item(add) on a product with no unit in stock
\* answer an out-of-stock error and change no product, item, order, payment
\* or ledger row.
C9_OutOfStockMutatesNothing ==
    [][\A o \in OrderIds, p \in Products :
          /\ ajax_add_product(o, p) \/ ajax_modify_order_item(o, p, "add")
          /\ product[p].qty = 0
          => ~ last'.ok /\ UNCHANGED Tables]_vars

C9_Witness ==
    /\ last.op = "modify_item" /\ last.action = "add" /\ ~ last.ok
    /\ \E p \in Products : product[p].qty = 0 /\ item[last.order][p].id > 0

\* C10: a successful add_item creates the item with qty 1 and the product's
\* price and discount_price when the order has none for the product, and
\* otherwise adds 1 to its qty and keeps the prices of its creation; either
\* way product.qty drops by exactly 1 and the order is recomputed.
C10_AddItemCreatesOrIncrements ==
    [][\A o \in OrderIds, p \in Products :
          ajax_add_product(o, p) /\ last'.ok =>
             /\ IF item[o][p].id = 0
                THEN /\ item'[o][p].id > 0
                     /\ item'[o][p].qty = 1
                     /\ item'[o][p].price = product[p].value
                     /\ item'[o][p].discount_price = product[p].discount_value
                ELSE /\ item'[o][p].id = item[o][p].id
                     /\ item'[o][p].qty = item[o][p].qty + 1
                     /\ item'[o][p].price = item[o][p].price
                     /\ item'[o][p].discount_price = item[o][p].discount_price
             /\ product'[p].qty = product[p].qty - 1
             /\ order'[o].value = ItemsTotalAfter(o)
             /\ order'[o].final_value = order'[o].value - order'[o].discount]_vars

C10_Witness ==
    /\ last.op = "add_item" /\ last.ok
    /\ \E p \in Products :
          /\ item[last.order][p].qty = 2
          /\ \/ item[last.order][p].price # product[p].value
             \/ item[last.order][p].discount_price # product[p].discount_value

\* C11: modify_item(remove) keeps the item row, lowers its qty by 1 with a
\* floor at 1, gives back to product.qty exactly the units taken off the
\* item, and recomputes the order.
C11_RemoveGivesBackTheUnitRemoved ==
    [][\A o \in OrderIds, p \in Products :
          ajax_modify_order_item(o, p, "remove") =>
             /\ item'[o][p].id = item[o][p].id
             /\ item'[o][p].qty = Max(1, item[o][p].qty - 1)
             /\ product'[p].qty
                   = product[p].qty + (item[o][p].qty - item'[o][p].qty)
             /\ order'[o].value = ItemsTotalAfter(o)
             /\ order'[o].final_value = order'[o].value - order'[o].discount]_vars

\* C12: right after every successful OrderItem create, quantity change and
\* delete, the persisted final_value of the order is value - discount.
C12_FinalValueAfterItemRequest ==
    ItemRequest =>
       order[last.order].final_value
          = order[last.order].value - order[last.order].discount

C12_Witness ==
    /\ ItemRequest /\ last.action = "delete"
    /\ order[last.order].discount > 0
    /\ order_items(item[last.order]) = {}

\* C13: after an order's discount is edited and saved, the persisted
\* final_value is value - discount, also for an order without items.
C13_DiscountEditRecomputes ==
    last.op = "edit_order" =>
       order[last.order].final_value
          = order[last.order].value - order[last.order].discount

\* C14: Product.qty >= 0 in every state reachable by any sequence, and any
\* interleaving of two concurrent requests, of add_item, modify_item, order
\* delete, replenishment and adjust_stock.
C14_QtyNeverNegative == \A p \in Products : product[p].qty >= 0

\* a worker about to serve an add on a product object loaded with one unit
\* while the other worker's add, served meanwhile, has taken that unit
C14_Witness ==
    \E w \in Workers, p \in Products :
        /\ reqs[w].op \in {"add_item", "modify_item"}
        /\ reqs[w].action \in {"", "add"}
        /\ reqs[w].p = p
        /\ reqs[w].product[p].qty = 1
        /\ product[p].qty = 0
        /\ last.op \in {"add_item", "modify_item"} /\ last.ok

\* C15: every successful replenishment with quantity Q and unit cost C
\* creates exactly one Depense with montant Q*C, raises the product's qty by
\* exactly Q and appends exactly one ledger row, of type ENTREE, with
\* quantite Q, cout_total Q*C, stock_avant the product's qty before the
\* call, stock_apres - stock_avant = Q and reference_depense the Depense
\* created.
C15_ReplenishmentRecords ==
    [][\A p \in Products, q \in 0..MaxStockQty, c \in 0..MaxCost :
          /\ ReplenishmentServed /\ last'.ok
          /\ \/ approvisionnement_view(p, q, c, 0)
             \/ quick_stock_update(p, "add", q, c, 0)
          => /\ \E d \in depense' :
                   /\ depense' \ depense = {d}
                   /\ depense \subseteq depense'
                   /\ d.montant = q * c
                   /\ ledger'[Len(ledger')].reference_depense = d.id
             /\ product'[p].qty = product[p].qty + q
             /\ \A r \in Products \ {p} : product'[r].qty = product[r].qty
             /\ Len(ledger') = Len(ledger) + 1
             /\ SubSeq(ledger', 1, Len(ledger)) = ledger
             /\ LET row == ledger'[Len(ledger')]
                IN  /\ row.produit = p
                    /\ row.type_mouvement = "ENTREE"
                    /\ row.quantite = q
                    /\ row.cout_total = q * c
                    /\ row.stock_avant = product[p].qty
                    /\ row.stock_apres - row.stock_avant = q]_vars

C15_Witness ==
    /\ last.op = "quick_stock" /\ last.action = "add" /\ last.ok
    /\ Len(ledger) > 0
    /\ LET row == ledger[Len(ledger)]
       IN  /\ row.type_mouvement = "ENTREE"
           /\ row.quantite = MaxStockQty
           /\ row.cout_total = MaxStockQty * MaxCost
           /\ product[row.produit].qty = row.stock_avant + MaxStockQty
           /\ \E d \in depense : /\ d.id = row.reference_depense
                                 /\ d.montant = MaxStockQty * MaxCost

\* C16: a replenishment is all-or-nothing: when any of its steps fails
\* (expense type, Depense insert, product update, ledger insert) the tables
\* are afterwards as before the call, and a replenishment that raises the
\* stock leaves the Depense and the ledger row that match it.
C16_ReplenishmentAllOrNothing ==
    [][ReplenishmentServed
          => IF last'.ok
             THEN /\ Cardinality(depense') = Cardinality(depense) + 1
                  /\ Len(ledger') = Len(ledger) + 1
                  /\ ledger'[Len(ledger')].reference_depense
                        \in {d.id : d \in depense' \ depense}
             ELSE UNCHANGED Tables]_vars

\* a replenishment that raised after the first replenishment had succeeded
C16_Witness ==
    /\ last.op = "quick_stock" /\ last.action = "add"
    /\ ~ last.ok /\ last.error = "erreur"
    /\ Cardinality(depense) = 1
    /\ Len(ledger) = 1
    /\ \E p \in Products :
          /\ product[p].qty = ledger[1].stock_apres
          /\ product[p].prix_achat = ledger[1].prix_achat_unitaire

\* C17: when add_item or modify_item fails between the write of the
\* OrderItem and the write of the Product, either both the change of the
\* item's quantity and the matching change of the product's quantity are
\* persisted, or neither is.
C17_ItemTransferAtomic ==
    [][last'.op \in {"add_item", "modify_item"} /\ last'.error = "interrompu"
          => \A o \in OrderIds, p \in Products :
                item'[o][p].qty # item[o][p].qty
                   <=> product'[p].qty # product[p].qty]_vars

\* C18: every OrderItem creation appends exactly one ledger row of type
\* SORTIE_VENTE, with quantite minus the item's quantity and
\* reference_commande the item's order, and every OrderItem deletion with
\* qty N appends exactly one ledger row of type AJUSTEMENT_PLUS with
\* quantite N.
C18_LedgerRowPerItemCreationAndDeletion ==
    [][LET slots == OrderIds \X Products
           created == {s \in slots : /\ item[s[1]][s[2]].id = 0
                                     /\ item'[s[1]][s[2]].id > 0}
           deleted == {s \in slots : /\ item[s[1]][s[2]].id > 0
                                     /\ item'[s[1]][s[2]].id = 0}
           new == SubSeq(ledger', Len(ledger) + 1, Len(ledger'))
           of(p) == {i \in DOMAIN new : new[i].produit = p}
       IN  /\ Len(ledger') = Len(ledger) + Cardinality(created)
                                + Cardinality(deleted)
           /\ \A s \in created :
                 /\ Cardinality(of(s[2])) = 1
                 /\ \A i \in of(s[2]) :
                       /\ new[i].type_mouvement = "SORTIE_VENTE"
                       /\ new[i].quantite = 0 - item'[s[1]][s[2]].qty
                       /\ new[i].quantite < 0
                       /\ new[i].reference_commande = s[1]
           /\ \A s \in deleted :
                 /\ Cardinality(of(s[2])) = 1
                 /\ \A i \in of(s[2]) :
                       /\ new[i].type_mouvement = "AJUSTEMENT_PLUS"
                       /\ new[i].quantite = item[s[1]][s[2]].qty]_vars

\* an item created and raised to two units has just been deleted with its
\* order
C18_Witness ==
    /\ last.op = "delete_order" /\ last.ok
    /\ Len(ledger) = 2
    /\ ledger[1].type_mouvement = "SORTIE_VENTE"
    /\ ledger[1].quantite = 0 - 1
    /\ ledger[2].type_mouvement = "AJUSTEMENT_PLUS"
    /\ ledger[2].quantite = 2
    /\ ledger[2].produit = ledger[1].produit

\* C19: after every request that changes a product's qty, the stock_apres
\* of the ledger row appended last for that product equals the product's
\* persisted qty.
C19_LastRowMatchesQty ==
    [][\A p \in Products :
          product'[p].qty # product[p].qty
          => LET rows == {i \in DOMAIN ledger' : ledger'[i].produit = p}
             IN  /\ rows # {}
                 /\ \A i \in rows :
                       (\A j \in rows : j <= i)
                       => ledger'[i].stock_apres = product'[p].qty]_vars

\* C20: a quick stock adjustment (add without cost, remove, set) changes
\* Product.qty and appends its ledger row together, the row's type
\* following the sign of the change of qty: AJUSTEMENT_PLUS when it is
\* positive, AJUSTEMENT_MOINS when it is negative, and no row at all when it
\* is zero.
C20_AdjustmentRowFollowsDelta ==
    [][\A p \in Products, a \in {"add", "remove", "set"},
          q \in 0..MaxStockQty, c \in 0..MaxCost, fault \in 0..4 :
          /\ last'.op = "quick_stock"
          /\ a = "add" => c = 0
          /\ quick_stock_update(p, a, q, c, fault)
          => LET delta == product'[p].qty - product[p].qty
                 row == ledger'[Len(ledger')]
             IN  IF delta = 0
                 THEN ledger' = ledger
                 ELSE /\ ledger' = Append(ledger, row)
                      /\ row.produit = p
                      /\ row.quantite = delta
                      /\ row.type_mouvement = IF delta > 0
                                              THEN "AJUSTEMENT_PLUS"
                                              ELSE "AJUSTEMENT_MOINS"]_vars

\* C21: a quick stock add with a unit cost goes through
\* create_approvisionnement and leaves a Depense and an ENTREE row; a quick
\* stock add without a unit cost is accepted and leaves only an
\* AJUSTEMENT_PLUS row with the rise of qty, and no Depense.
C21_AddWithAndWithoutCost ==
    [][\A p \in Products, q \in 0..MaxStockQty, c \in 0..MaxCost :
          /\ last'.op = "quick_stock" /\ last'.action = "add"
          /\ quick_stock_update(p, "add", q, c, 0)
          => /\ last'.ok
             /\ product'[p].qty = product[p].qty + q
             /\ Len(ledger') = Len(ledger) + 1
             /\ IF c > 0
                THEN /\ Cardinality(depense') = Cardinality(depense) + 1
                     /\ ledger'[Len(ledger')].type_mouvement = "ENTREE"
                ELSE /\ depense' = depense
                     /\ ledger'[Len(ledger')].type_mouvement
                           = "AJUSTEMENT_PLUS"
                     /\ ledger'[Len(ledger')].quantite = q]_vars

\* C24: every Depense row persisted has montant > 0, the Depense of a
\* replenishment reached through the quick stock add included, for every
\* quantity the form accepts.
C24_DepenseMontantPositive == \A d \in depense : d.montant > 0

\* C25: the SORTIE_VENTE row written for the creation of an OrderItem has
\* stock_avant equal to the product's persisted qty right before that
\* add_item and stock_apres equal to its persisted qty right after it.
C25_SaleRowSnapshots ==
    [][\A o \in OrderIds, p \in Products :
          /\ last'.op = "add_item" /\ last'.ok
          /\ item[o][p].id = 0 /\ item'[o][p].id > 0
          => /\ Len(ledger') = Len(ledger) + 1
             /\ ledger'[Len(ledger')].type_mouvement = "SORTIE_VENTE"
             /\ ledger'[Len(ledger')].stock_avant = product[p].qty
             /\ ledger'[Len(ledger')].stock_apres = product'[p].qty]_vars

\* the units of product p on the items of the orders O
RECURSIVE SumItemQty(_, _, _)
SumItemQty(O, p, its) ==
    IF O = {} THEN 0
    ELSE LET o == CHOOSE x \in O : TRUE
         IN its[o][p].qty + SumItemQty(O \ {o}, p, its)

\* C29: in serial execution, for every product, Product.qty plus the sum of
\* qty over the existing OrderItems of that product is changed by no
\* add_item, modify_item(add), modify_item(remove), modify_item(delete) or
\* order delete.
C29_StockConservation ==
    [][\A p \in Products :
          product'[p].qty + SumItemQty(OrderIds, p, item')
             = product[p].qty + SumItemQty(OrderIds, p, item)]_vars

\* C30: every ledger row appended, by a sale, an item deletion, a
\* replenishment or a manual adjustment, has
\* stock_apres - stock_avant = quantite, stock_avant >= 0 and
\* stock_apres >= 0, and a type that agrees with the sign of quantite.
C30_LedgerRowsConsistent ==
    \A i \in DOMAIN ledger :
        LET row == ledger[i]
        IN  /\ row.stock_apres - row.stock_avant = row.quantite
            /\ row.stock_avant >= 0
            /\ row.stock_apres >= 0
            /\ row.type_mouvement \in {"ENTREE", "AJUSTEMENT_PLUS"}
                  => row.quantite >= 0
            /\ row.type_mouvement \in {"SORTIE_VENTE", "AJUSTEMENT_MOINS"}
                  => row.quantite <= 0

\* a ledger with a sale, a replenishment and a removal
C30_Witness ==
    /\ Len(ledger) = 3
    /\ {ledger[i].type_mouvement : i \in DOMAIN ledger}
          = {"SORTIE_VENTE", "ENTREE", "AJUSTEMENT_MOINS"}
    /\ \E i \in DOMAIN ledger : ledger[i].quantite < 0 - 1

\* C28: Product rows are not locked.  A successful add (add_item, or
\* modify_item(add)) writes the qty it read minus one, whatever the row has
\* become meanwhile (last write wins), so two concurrent adds that both read
\* q leave q - 1 and one decrement is lost; when no write came between its
\* read and its write, as in serial execution, the add lowers the row by
\* exactly one.
C28_LostUpdateOnlyWhenInterleaved ==
    [][\A w \in Workers :
          /\ reqs[w].op \in {"add_item", "modify_item"}
          /\ reqs[w].action \in {"", "add"}
          /\ last'.ok
          /\ complete_request(w)
          => LET p == reqs[w].p
                 read == reqs[w].product[p].qty
             IN  /\ product'[p].qty = read - 1
                 /\ product[p].qty = read
                       => product'[p].qty = product[p].qty - 1]_vars

\* two requests were taken, both adds of p that read the initial qty: the
\* item holds two units and the stock has lost one
C28_Witness ==
    \E o \in OrderIds, p \in Products :
        /\ Served = 2
        /\ \A w \in Workers : reqs[w].op = "" /\ reqs[w].served = 1
        /\ last.op = "add_item" /\ last.ok
        /\ item[o][p].qty = 2
        /\ product[p].qty = InitQty - 1

\* C22: Order.save generates a title exactly when the title it is given is
\* blank (empty or spaces only).  A save given a non-blank title, typed by
\* the user or generated by an earlier save, writes that title back, and the
\* saves of the item and payment requests leave the title of the row as it
\* was.
C22_TitleGeneratedOnlyWhenBlank ==
    [][generated'.saves # generated.saves =>
          LET g == generated'
          IN  /\ g.regenerated <=> g.before.kind \in {"", " "}
              /\ ~ g.regenerated => g.title = g.before
              /\ \E r \in orderTitles' : r.pk = g.pk /\ r.title = g.title
              /\ g.op = "resave" =>
                    \E r \in orderTitles : r.pk = g.pk /\ r.title = g.title]_vars

\* an order created with a blank title, whose generated title a later save
\* of an item or payment request kept
C22_Witness ==
    /\ generated.op = "resave"
    /\ generated.pk >= FirstNewPk
    /\ generated.title.kind = "CMD"
    /\ ~ generated.regenerated
    /\ generated.saves = 2

\* C23: in a serial sequence of saves and deletions, generate_order_number
\* never returns a title that another existing order holds, the fallback
\* branch included.
C23_GeneratedTitleUnused == generated.regenerated => ~ generated.taken

\* C26: generate_order_number ends after at most 1000 existence probes,
\* whatever the Order table holds and whatever the seed is, and what it
\* returns is a sequence title that no other order holds or the millisecond
\* fallback.
C26_ProbesBounded ==
    generated.regenerated =>
        /\ generated.probes >= 1
        /\ generated.probes <= MaxSequence + 1
        /\ generated.fallback \/ ~ generated.taken

\* the longest run: the count is 0, every title numbered 1 .. 999 of the
\* minute is held, and the fallback is returned after 999 probes
C26_Witness ==
    /\ generated.regenerated
    /\ generated.fallback
    /\ generated.probes = MaxSequence

\* C27: two creations of the same business date and minute persist the same
\* generated title only when they interleave: the request that inserts a
\* title which an order created beside it already holds had generated it
\* before that order was inserted.  Requests that run one after the other
\* never do.
C27_DuplicateOnlyWhenInterleaved ==
    [][\A w \in Workers :
          /\ reqs[w].op = "create_order"
          /\ reqs'[w].op = ""
          => \A r \in orderTitles :
                /\ r.pk >= FirstNewPk
                /\ r.date = reqs[w].instance.date
                /\ r.title = reqs[w].instance.title
                => r.pk >= reqs[w].n]_vars

====
